---- MODULE Spec2Model ----
(***************************************************************************)
(* Model of odbc2parquet's decimal fetch strategies (src/query/decimal.rs) *)
(* and of its row set buffer (src/odbc_buffer.rs).                         *)
(*                                                                         *)
(* Two components share the module.  A behaviour runs exactly one of them, *)
(* chosen by Init:                                                         *)
(*   - the strategy component: decmial_fetch_strategy picks a strategy for *)
(*     a decimal column, buffer_description asks for its staging buffer,   *)
(*     copy_odbc_to_parquet copies one batch view into the parquet sink;   *)
(*   - the buffer component: OdbcBuffer::new, bind_to_cursor (one cursor   *)
(*     call per step), fetches by the driver, and the typed accessors.     *)
(*                                                                         *)
(* Integers wider than TLC's are kept as little-endian two's complement    *)
(* byte sequences ("words"), so that i64 and i128 arithmetic wraps where   *)
(* the machine's does.                                                     *)
(***************************************************************************)
EXTENDS Integers, Sequences, FiniteSets, TLC

VARIABLES
    pc,                       \* position of the running component
    \* --- strategy component (decimal.rs)
    is_optional,              \* arguments of decmial_fetch_strategy
    scale,
    precision,
    driver_does_support_i64,
    strategy,                 \* the Box<dyn ColumnFetchStrategy> it returned
    buffer_desc,              \* what buffer_description() returned
    column_view,              \* the AnyColumnView handed to copy_odbc_to_parquet
    sink,                     \* optional entries appended to the column writer
    copy_result,              \* outcome of copy_odbc_to_parquet
    \* --- buffer component (odbc_buffer.rs)
    batch_size,               \* OdbcBuffer.batch_size
    num_rows_fetched,         \* OdbcBuffer.num_rows_fetched
    buffers,                  \* OdbcBuffer.buffers
    calls,                    \* cursor calls made by bind_to_cursor, in order
    bind_result,              \* what bind_to_cursor returned
    fetched,                  \* rows the driver delivered in the latest fetch
    yielded                   \* what the latest typed accessor call produced

vars == <<pc, is_optional, scale, precision, driver_does_support_i64, strategy,
          buffer_desc, column_view, sink, copy_result, batch_size,
          num_rows_fetched, buffers, calls, bind_result, fetched, yielded>>

strategyVars == <<is_optional, scale, precision, driver_does_support_i64, strategy,
                  buffer_desc, column_view, sink, copy_result>>

bufferVars == <<batch_size, num_rows_fetched, buffers, calls, bind_result,
                fetched, yielded>>

(***************************************************************************)
(* Bounds of the model.                                                    *)
(***************************************************************************)
MaxPrecision == 20      \* precisions 0..MaxPrecision
MaxScale == 2           \* scales -MaxNegScale..MaxScale
MaxNegScale == 1
MaxRows == 2            \* rows of a multi-row batch view handed to a copy
MaxBatch == 3           \* batch sizes 1..MaxBatch
MaxCols == 2            \* OdbcBuffer columns 0..MaxCols

(***************************************************************************)
(* Option<T>: None is the empty tuple, Some(v) the one-element tuple.      *)
(***************************************************************************)
None == <<>>
Some(v) == <<v>>
IsSome(o) == Len(o) = 1
Unwrap(o) == o[1]

Reverse(s) == [i \in 1..Len(s) |-> s[Len(s) + 1 - i]]

(***************************************************************************)
(* Words: little-endian byte sequences, read as two's complement.          *)
(***************************************************************************)
I64Bytes == 8       \* size of i64
I128Bytes == 16     \* size of i128

ZeroWord(w) == [i \in 1..w |-> 0]

IsNegativeWord(word) == word # <<>> /\ word[Len(word)] >= 128

SignExtend(word, w) ==
    word \o [i \in 1..(w - Len(word)) |-> IF IsNegativeWord(word) THEN 255 ELSE 0]

\* word * m + carry, modulo 256^Len(word)
RECURSIVE MulAdd(_, _, _)
MulAdd(word, m, carry) ==
    IF word = <<>> THEN <<>>
    ELSE LET t == Head(word) * m + carry
         IN  <<t % 256>> \o MulAdd(Tail(word), m, t \div 256)

\* word - borrow, modulo 256^Len(word)
RECURSIVE SubSmall(_, _)
SubSmall(word, borrow) ==
    IF word = <<>> THEN <<>>
    ELSE LET t == Head(word) - borrow
         IN  IF t < 0 THEN <<t + 256>> \o SubSmall(Tail(word), 1)
                      ELSE <<t>> \o SubSmall(Tail(word), 0)

\* -word, modulo 256^Len(word)
NegateWord(word) == MulAdd([i \in 1..Len(word) |-> 255 - word[i]], 1, 1)

\* a <= b for unsigned big-endian byte sequences of one length
RECURSIVE LeqBE(_, _)
LeqBE(a, b) ==
    IF a = <<>> THEN TRUE
    ELSE IF Head(a) # Head(b) THEN Head(a) < Head(b)
    ELSE LeqBE(Tail(a), Tail(b))

\* a <= b for unsigned words of one length
LeqWord(a, b) == LeqBE(Reverse(a), Reverse(b))

\* 10^k and 2^k as unsigned words of w bytes
RECURSIVE Pow10Word(_, _)
Pow10Word(k, w) ==
    IF k = 0 THEN MulAdd(ZeroWord(w), 1, 1) ELSE MulAdd(Pow10Word(k - 1, w), 10, 0)

Pow2Word(k, w) == [i \in 1..w |-> IF i = (k \div 8) + 1 THEN 2 ^ (k % 8) ELSE 0]

(***************************************************************************)
(* Mathematical integers, as sign and decimal digits without leading       *)
(* zeros: what a text denotes and what a byte string decodes to.           *)
(***************************************************************************)
DigitChars == {"0", "1", "2", "3", "4", "5", "6", "7", "8", "9"}

DigitValue(c) ==
    CASE c = "0" -> 0 [] c = "1" -> 1 [] c = "2" -> 2 [] c = "3" -> 3
      [] c = "4" -> 4 [] c = "5" -> 5 [] c = "6" -> 6 [] c = "7" -> 7
      [] c = "8" -> 8 [] c = "9" -> 9

RECURSIVE StripLeadingZeros(_)
StripLeadingZeros(ds) ==
    IF ds # <<>> /\ Head(ds) = 0 THEN StripLeadingZeros(Tail(ds)) ELSE ds

Canonical(neg, ds) ==
    LET m == StripLeadingZeros(ds) IN [neg |-> neg /\ m # <<>>, digits |-> m]

\* big-endian unsigned bytes divided by d: quotient (big-endian) and remainder
RECURSIVE DivBE(_, _, _)
DivBE(be, d, rem) ==
    IF be = <<>> THEN [q |-> <<>>, r |-> rem]
    ELSE LET t == rem * 256 + Head(be)
             rest == DivBE(Tail(be), d, t % d)
         IN  [q |-> <<t \div d>> \o rest.q, r |-> rest.r]

RECURSIVE DecimalDigitsBE(_)
DecimalDigitsBE(be) ==
    IF \A i \in 1..Len(be) : be[i] = 0 THEN <<>>
    ELSE LET qr == DivBE(be, 10, 0) IN DecimalDigitsBE(qr.q) \o <<qr.r>>

\* the integer a two's complement word holds
WordValue(word) ==
    IF IsNegativeWord(word)
    THEN Canonical(TRUE, DecimalDigitsBE(Reverse(NegateWord(word))))
    ELSE Canonical(FALSE, DecimalDigitsBE(Reverse(word)))

\* the integer a reader of the parquet file decodes from a big-endian
\* two's complement FIXED_LEN_BYTE_ARRAY value
DecodeBE(bytes) == WordValue(Reverse(bytes))

SelectDigits(text) == SelectSeq(text, LAMBDA c : c \in DigitChars)

IsSignChar(c) == c \in {"+", "-"}

Unsigned(text) == IF text # <<>> /\ IsSignChar(Head(text)) THEN Tail(text) ELSE text

\* an optional sign, then one or more digits and nothing else
WellFormedInteger(text) ==
    /\ Unsigned(text) # <<>>
    /\ \A i \in 1..Len(Unsigned(text)) : Unsigned(text)[i] \in DigitChars

\* an optional sign, then digits with at most one radix point among them
WellFormedDecimal(text) ==
    /\ SelectDigits(text) # <<>>
    /\ \A i \in 1..Len(Unsigned(text)) : Unsigned(text)[i] \in DigitChars \cup {"."}
    /\ Len(SelectSeq(text, LAMBDA c : c = ".")) <= 1

\* the integer a well formed text denotes once its radix point is removed
Denoted(text) ==
    LET ds == SelectDigits(text)
    IN  Canonical(text # <<>> /\ Head(text) = "-",
                  [i \in 1..Len(ds) |-> DigitValue(ds[i])])

NumDigits(text) == Len(Denoted(text).digits)

(***************************************************************************)
(* atoi::FromRadix10Signed, called at decimal.rs:218 on i64.               *)
(***************************************************************************)
NoDigit == -1

ascii_to_digit(c) == IF c \in DigitChars THEN DigitValue(c) ELSE NoDigit

\* One `number *= 10; number += digit` (or `-= digit`) at the width of number:
\* the wrapped result, and whether the exact result did not fit.
RadixStep(number, digit, negative) ==
    LET wide == SignExtend(number, Len(number) + 1)
        times10 == MulAdd(wide, 10, 0)
        exact == IF negative THEN SubSmall(times10, digit)
                             ELSE MulAdd(times10, 1, digit)
        wrapped == SubSeq(exact, 1, Len(number))
    IN  [number |-> wrapped, overflow |-> exact # SignExtend(wrapped, Len(exact))]

RECURSIVE radix_10_loop(_, _, _, _, _)
radix_10_loop(text, index, number, negative, overflow) ==
    IF index = Len(text)
    THEN [value |-> number, index |-> index, overflow |-> overflow]
    ELSE LET digit == ascii_to_digit(text[index + 1])
         IN  IF digit = NoDigit
             THEN [value |-> number, index |-> index, overflow |-> overflow]
             ELSE LET step == RadixStep(number, digit, negative)
                  IN  IF step.overflow
                      THEN radix_10_loop(text, index + 1, step.number, negative, TRUE)
                      ELSE radix_10_loop(text, index + 1, step.number, negative,
                                         overflow)

\* (number, index) of from_radix_10_signed at a width of w bytes, and whether
\* an arithmetic step overflowed on the way
from_radix_10_signed(text, w) ==
    LET signed == text # <<>> /\ IsSignChar(Head(text))
    IN  radix_10_loop(text, IF signed THEN 1 ELSE 0, ZeroWord(w),
                      signed /\ Head(text) = "-", FALSE)

(***************************************************************************)
(* The strategies of decimal.rs.                                           *)
(***************************************************************************)
NoStrategy == [kind |-> "None"]

Repetition(optional) == IF optional THEN "OPTIONAL" ELSE "REQUIRED"

\* f64 arithmetic of DecimalAsBinary::new in millionths of a bit: log2(10)
\* lies strictly between Log2Of10Micro and Log2Of10Micro + 1 millionths.
Micro == 1000000
Log2Of10Micro == 3321928

CeilDiv(a, b) == (a + b - 1) \div b

\* mutants of length_in_bytes: no bit for the sign; rounding down
length_in_bytes_no_sign(p) == CeilDiv(p * Log2Of10Micro, 8 * Micro)

length_in_bytes_floor(p) == (p * Log2Of10Micro + Micro) \div (8 * Micro)

length_in_bytes(p) ==
    LET num_binary_digits == p * Log2Of10Micro
        length_in_bits == num_binary_digits + Micro
    IN  CeilDiv(length_in_bits, 8 * Micro)

DecimalAsBinary_new(repetition, s, p) ==
    [kind |-> "DecimalAsBinary", repetition |-> repetition, scale |-> s,
     precision |-> p, length_in_bytes |-> length_in_bytes(p)]

I64FromText_decimal(optional, p) ==
    [kind |-> "I64FromText", is_optional |-> optional, precision |-> p]

\* fetch_decimal_as_identical_with_precision::<Int32Type> and ::<Int64Type>
fetch_decimal_as_identical_with_precision(physical, optional, p) ==
    [kind |-> "Identical", physical_type |-> physical, is_optional |-> optional,
     precision |-> p]

\* mutant of decmial_fetch_strategy: 19 digits still taken for an i64
decmial_fetch_strategy_19(optional, s, p, supports_i64) ==
    IF p \in 0..9 /\ s = 0
    THEN fetch_decimal_as_identical_with_precision("INT32", optional, p)
    ELSE IF p \in 10..19 /\ s = 0
    THEN IF supports_i64
         THEN fetch_decimal_as_identical_with_precision("INT64", optional, p)
         ELSE I64FromText_decimal(optional, p)
    ELSE DecimalAsBinary_new(Repetition(optional), s, p)

decmial_fetch_strategy(optional, s, p, supports_i64) ==
    IF p \in 0..9 /\ s = 0
    THEN fetch_decimal_as_identical_with_precision("INT32", optional, p)
    ELSE IF p \in 10..18 /\ s = 0
    THEN IF supports_i64
         THEN fetch_decimal_as_identical_with_precision("INT64", optional, p)
         ELSE I64FromText_decimal(optional, p)
    ELSE DecimalAsBinary_new(Repetition(optional), s, p)

\* ColumnFetchStrategy::parquet_type
parquet_type(st) ==
    CASE st.kind = "DecimalAsBinary" ->
            [physical_type |-> "FIXED_LEN_BYTE_ARRAY", length |-> st.length_in_bytes,
             converted_type |-> "DECIMAL", precision |-> st.precision,
             scale |-> st.scale, repetition |-> st.repetition]
      [] st.kind = "I64FromText" ->
            [physical_type |-> "INT64", length |-> 0,
             converted_type |-> "DECIMAL", precision |-> st.precision,
             scale |-> 0, repetition |-> Repetition(st.is_optional)]
      [] st.kind = "Identical" ->
            [physical_type |-> st.physical_type, length |-> 0,
             converted_type |-> "DECIMAL", precision |-> st.precision,
             scale |-> 0, repetition |-> Repetition(st.is_optional)]

\* odbc_api's DataType::Decimal { precision, scale }.display_size(): the ODBC
\* display size of a decimal, whatever its scale
display_size(p, s) == Some(p + 2)

I16Min == -32768
I16Max == 32767

\* i32 -> i16, as self.scale.try_into()
TryIntoI16(n) == IF n \in I16Min..I16Max THEN Some(n) ELSE None

NoDescription == [kind |-> "None", max_str_len |-> 0, nullable |-> FALSE]
PanicDescription == [kind |-> "Panic", max_str_len |-> 0, nullable |-> FALSE]

\* ColumnFetchStrategy::buffer_description; PanicDescription for an unwrap of None
buffer_description(st) ==
    CASE st.kind = "DecimalAsBinary" ->
            IF IsSome(TryIntoI16(st.scale))
            THEN [kind |-> "Text",
                  max_str_len |-> Unwrap(display_size(st.precision,
                                                      Unwrap(TryIntoI16(st.scale)))),
                  nullable |-> TRUE]
            ELSE PanicDescription
      [] st.kind = "I64FromText" ->
            IF st.precision >= 0
            THEN [kind |-> "Text",
                  max_str_len |-> Unwrap(display_size(st.precision, 0)),
                  nullable |-> st.is_optional]
            ELSE PanicDescription
      [] st.kind = "Identical" ->
            [kind |-> IF st.physical_type = "INT32" THEN "I32" ELSE "I64",
             max_str_len |-> 0, nullable |-> st.is_optional]

(***************************************************************************)
(* copy_odbc_to_parquet.  A copy's outcome is what it returned ("ok",      *)
(* "err" for an error of the parquet writer passed on by `?`, "panic") and *)
(* the optional entries it handed to the column writer.                    *)
(***************************************************************************)
WriteResult(write_ok) == IF write_ok THEN "ok" ELSE "err"

Panicked == [result |-> "panic", sink |-> <<>>]

\* mutants of I64FromText_cell: a null becomes 0; the text is parsed as i32
I64FromText_cell_default(value) ==
    IF IsSome(value)
    THEN Some(from_radix_10_signed(Unwrap(value), I64Bytes).value)
    ELSE Some(ZeroWord(I64Bytes))

I64FromText_cell_i32(value) ==
    IF IsSome(value)
    THEN Some(SignExtend(from_radix_10_signed(Unwrap(value), 4).value, I64Bytes))
    ELSE None

\* |value| value.map(|text| i64::from_radix_10_signed(text).0)
I64FromText_cell(value) ==
    IF IsSome(value)
    THEN Some(from_radix_10_signed(Unwrap(value), I64Bytes).value)
    ELSE None

I64FromText_copy_odbc_to_parquet(view, write_ok) ==
    IF view.kind = "Text"
    THEN [result |-> WriteResult(write_ok),
          sink |-> [i \in 1..Len(view.rows) |-> I64FromText_cell(view.rows[i])]]
    ELSE Panicked

\* ParquetBuffer::write_decimal encodes one text: the radix point is dropped,
\* the digits are parsed as a signed integer and rendered as big-endian two's
\* complement of exactly len bytes
encode_decimal(text, len) ==
    LET digits == SelectSeq(text, LAMBDA c : c # ".")
        num == from_radix_10_signed(digits, I128Bytes).value
    IN  Reverse(SubSeq(num, 1, len))

\* ParquetBuffer::write_decimal
write_decimal(rows, len, p, write_ok) ==
    IF \E i \in 1..Len(rows) : IsSome(rows[i]) /\ ~WellFormedDecimal(Unwrap(rows[i]))
    THEN Panicked
    ELSE [result |-> WriteResult(write_ok),
          sink |-> [i \in 1..Len(rows) |->
                        IF IsSome(rows[i])
                        THEN Some(encode_decimal(Unwrap(rows[i]), len))
                        ELSE None]]

write_decimal_col(view, len, p, write_ok) ==
    IF view.kind = "Text"
    THEN write_decimal(view.rows, len, p, write_ok)
    ELSE Panicked

\* the copy of the identical strategies (query/identical.rs)
Identical_copy_odbc_to_parquet(st, view, write_ok) ==
    IF view.kind = buffer_description(st).kind
    THEN [result |-> WriteResult(write_ok), sink |-> view.rows]
    ELSE Panicked

copy_odbc_to_parquet(st, view, write_ok) ==
    CASE st.kind = "DecimalAsBinary" ->
            write_decimal_col(view, st.length_in_bytes, st.precision, write_ok)
      [] st.kind = "I64FromText" -> I64FromText_copy_odbc_to_parquet(view, write_ok)
      [] st.kind = "Identical" -> Identical_copy_odbc_to_parquet(st, view, write_ok)

(***************************************************************************)
(* Inputs: the decimal columns a data source describes and the batch views *)
(* its driver fills.                                                       *)
(***************************************************************************)
Precisions == 0..MaxPrecision
Scales == (0 - MaxNegScale)..MaxScale

SeqsUpTo(S, n) == UNION {[1..k -> S] : k \in 0..n}

Zeros(k) == [i \in 1..k |-> "0"]
Nines(k) == [i \in 1..k |-> "9"]
OneZeros(k) == [i \in 1..k |-> IF i = 1 THEN "1" ELSE "0"]

ExampleDigits ==
    { <<"0">>, <<"7">>, <<"4", "2">>, <<"1", "2", "3", "4", "5">>,
      <<"1", "2", "3", "4", "5", "6", "7", "8", "9", "0",
        "1", "2", "3", "4", "5", "6", "7", "8", "9", "0">> }

\* digit strings of the unscaled values of a decimal of precision p
Magnitudes(p) ==
    {<<"0">>} \cup {m \in ExampleDigits \cup {Nines(p), OneZeros(p)} : Len(m) \in 1..p}

Signs == {<<>>, <<"-">>, <<"+">>}

\* The text a driver renders for the unscaled digits of a decimal of scale s:
\* no leading zero before the radix point, zeros added where the scale asks.
Render(sign, digits, s) ==
    IF s <= 0 THEN sign \o digits \o Zeros(0 - s)
    ELSE LET padded == Zeros(s - Len(digits)) \o digits
             n == Len(padded)
         IN  sign \o SubSeq(padded, 1, n - s) \o <<".">> \o SubSeq(padded, n - s + 1, n)

\* zero is rendered as a plain 0
Renderings(p, s) ==
    {<<"0">>} \cup
    {Render(sg, m, s) : sg \in Signs, m \in Magnitudes(p) \ {<<"0">>}}

MalformedTexts == { <<>>, <<"-">>, <<"x", "7">>, <<"1", "2", "a">>, <<"1", " ", "2">> }

TextCells(p, s) ==
    {None} \cup {Some(t) : t \in Renderings(p, s) \cup MalformedTexts}

FewTextCells(p, s) ==
    {None, Some(Render(<<"-">>, Nines(p), s)), Some(<<"1", "2", "a">>)}

NativeCells == {None, Some(42)}

\* the views of one column of a fetched batch
ColumnViews(p, s) ==
    {[kind |-> "Text", rows |-> r] :
        r \in SeqsUpTo(FewTextCells(p, s), MaxRows) \cup {<<c>> : c \in TextCells(p, s)}}
    \cup
    {[kind |-> k, rows |-> r] :
        k \in {"I32", "I64"}, r \in SeqsUpTo(NativeCells, MaxRows)}

NoView == [kind |-> "None", rows |-> <<>>]

(***************************************************************************)
(* The strategy component.                                                 *)
(***************************************************************************)
BufferIdle ==
    /\ batch_size = 0
    /\ num_rows_fetched = 0
    /\ buffers = <<>>
    /\ calls = <<>>
    /\ bind_result = "none"
    /\ fetched = <<>>
    /\ yielded = [accessor |-> "None", col_index |-> 0, outcome |-> "none",
                  items |-> <<>>]

InitStrategy ==
    /\ pc = "start"
    /\ is_optional \in BOOLEAN
    /\ scale \in Scales
    /\ precision \in Precisions
    /\ driver_does_support_i64 \in BOOLEAN
    /\ strategy = NoStrategy
    /\ buffer_desc = NoDescription
    /\ column_view = NoView
    /\ sink = <<>>
    /\ copy_result = "none"
    /\ BufferIdle

SelectStrategy ==
    /\ pc = "start"
    /\ strategy' = decmial_fetch_strategy(is_optional, scale, precision,
                                          driver_does_support_i64)
    /\ pc' = "selected"
    /\ UNCHANGED <<is_optional, scale, precision, driver_does_support_i64,
                   buffer_desc, column_view, sink, copy_result>>
    /\ UNCHANGED bufferVars

BufferDescription ==
    /\ pc = "selected"
    /\ buffer_desc' = buffer_description(strategy)
    /\ pc' = IF buffer_desc'.kind = "Panic" THEN "description_panicked" ELSE "described"
    /\ UNCHANGED <<is_optional, scale, precision, driver_does_support_i64,
                   strategy, column_view, sink, copy_result>>
    /\ UNCHANGED bufferVars

CopyOdbcToParquet ==
    /\ pc = "described"
    /\ \E view \in ColumnViews(precision, scale), write_ok \in BOOLEAN :
          LET out == copy_odbc_to_parquet(strategy, view, write_ok)
          IN  /\ column_view' = view
              /\ sink' = out.sink
              /\ copy_result' = out.result
    /\ pc' = "copied"
    /\ UNCHANGED <<is_optional, scale, precision, driver_does_support_i64,
                   strategy, buffer_desc>>
    /\ UNCHANGED bufferVars

(***************************************************************************)
(* The buffer component: OdbcBuffer of odbc_buffer.rs.                     *)
(***************************************************************************)
KindOrder == <<"Text", "F64", "F32", "Date", "Timestamp", "I32", "I64", "Bit">>

Kinds == {KindOrder[i] : i \in 1..Len(KindOrder)}

\* ColumnBufferDescription
Description(kind) == [kind |-> kind, max_str_len |-> IF kind = "Text" THEN 2 ELSE 0]

\* the column descriptions handed to OdbcBuffer::new: up to MaxCols columns,
\* of consecutive kinds starting at any kind
Descriptions ==
    {[i \in 1..n |-> Description(KindOrder[((k + i - 2) % Len(KindOrder)) + 1])] :
        n \in 0..MaxCols, k \in 1..Len(KindOrder)}

NULL_DATA == -1

\* the value a source row holds in a column of a kind: one of two per kind
SourceValue(kind, which) ==
    CASE kind = "Text" -> IF which = 0 THEN <<"4", "2">> ELSE <<"-", "7">>
      [] kind = "Bit" -> which = 0
      [] OTHER -> IF which = 0 THEN 42 ELSE 0 - 7

\* what the driver stores in the bound value buffer for a source value
Stored(kind, v) == IF kind = "Bit" THEN (IF v THEN 1 ELSE 0) ELSE v

\* the indicator the driver stores beside it
Indicator(kind, v) == IF kind = "Text" THEN Len(v) ELSE 0

DefaultValue(kind) == IF kind = "Text" THEN <<>> ELSE 0

AnyColumnBuffer_new(desc, size) ==
    [kind |-> desc.kind,
     values |-> [r \in 1..size |-> DefaultValue(desc.kind)],
     indicators |-> [r \in 1..size |-> NULL_DATA]]

NoYield == [accessor |-> "None", col_index |-> 0, outcome |-> "none", items |-> <<>>]

StrategyIdle ==
    /\ is_optional = FALSE
    /\ scale = 0
    /\ precision = 0
    /\ driver_does_support_i64 = FALSE
    /\ strategy = NoStrategy
    /\ buffer_desc = NoDescription
    /\ column_view = NoView
    /\ sink = <<>>
    /\ copy_result = "none"

\* OdbcBuffer::new
InitBuffer ==
    /\ pc = "constructed"
    /\ batch_size \in 1..MaxBatch
    /\ num_rows_fetched = 0
    /\ \E desc \in Descriptions :
          /\ buffers = [c \in 1..Len(desc) |-> AnyColumnBuffer_new(desc[c], batch_size)]
          /\ fetched = [c \in 1..Len(desc) |-> <<>>]
    /\ calls = <<>>
    /\ bind_result = "none"
    /\ yielded = NoYield
    /\ StrategyIdle

(* bind_to_cursor, one cursor call per step.  Each call either succeeds or   *)
(* returns an error of the driver, which `?` returns to the caller.          *)
Errors == {"E1", "E2"}

CallResults == {"ok"} \cup Errors

CursorCall(call, arg, buffer, result) ==
    [call |-> call, arg |-> arg, buffer |-> buffer, result |-> result]

\* where bind_to_cursor stands after a call with this result, `done` telling
\* whether the call was its last
AfterCall(result, next, done) ==
    IF result # "ok" THEN "bind_failed" ELSE IF done THEN "bound" ELSE next

ResultAfterCall(result, done) ==
    IF result # "ok" THEN result ELSE IF done THEN "ok" ELSE "none"

\* cursor.set_row_array_size(self.batch_size.try_into().unwrap())?
BindSetRowArraySize ==
    /\ pc = "constructed"
    /\ \E result \in CallResults :
          /\ calls' = Append(calls, CursorCall("set_row_array_size", batch_size, 0,
                                               result))
          /\ pc' = AfterCall(result, "bind_num_rows_fetched", FALSE)
          /\ bind_result' = ResultAfterCall(result, FALSE)
    /\ UNCHANGED <<batch_size, num_rows_fetched, buffers, fetched, yielded>>
    /\ UNCHANGED strategyVars

\* cursor.set_num_rows_fetched(&mut self.num_rows_fetched)?
BindSetNumRowsFetched ==
    /\ pc = "bind_num_rows_fetched"
    /\ \E result \in CallResults :
          /\ calls' = Append(calls, CursorCall("set_num_rows_fetched", 0, 0, result))
          /\ pc' = AfterCall(result, "bind_col", Len(buffers) = 0)
          /\ bind_result' = ResultAfterCall(result, Len(buffers) = 0)
    /\ UNCHANGED <<batch_size, num_rows_fetched, buffers, fetched, yielded>>
    /\ UNCHANGED strategyVars

\* mutant of bind_col_ordinal: the 0-based position is taken for the ordinal
bind_col_ordinal_same(index) == index

\* the ordinal at which the buffer at 0-based position index is bound

bind_col_ordinal(index) == index + 1

\* one turn of the loop: cursor.bind_col((index + 1).try_into().unwrap(), buf)?
BindCol ==
    /\ pc = "bind_col"
    /\ LET index == Len(calls) - 2
       IN  \E result \in CallResults :
              /\ calls' = Append(calls, CursorCall("bind_col", bind_col_ordinal(index),
                                                   index + 1, result))
              /\ pc' = AfterCall(result, "bind_col", index + 1 = Len(buffers))
              /\ bind_result' = ResultAfterCall(result, index + 1 = Len(buffers))
    /\ UNCHANGED <<batch_size, num_rows_fetched, buffers, fetched, yielded>>
    /\ UNCHANGED strategyVars

(* A fetch of the driver through the bound buffers: it delivers R rows,      *)
(* writes value and indicator of the rows 1..R of every column (a null row   *)
(* gets NULL_DATA and keeps the old value), leaves the rows after R alone    *)
(* and stores R in the bound row counter.                                    *)
NullPatterns == {0, 1}

IsNullAt(pattern, r, c) == (r + c) % 2 = pattern

SourceRows(kind, c, rows, pattern) ==
    [r \in 1..rows |->
        IF IsNullAt(pattern, r, c) THEN None
        ELSE Some(SourceValue(kind, (r + c + pattern + 1) % 2))]

Fetch ==
    /\ pc \in {"bound", "fetched"}
    /\ \E rows \in 0..batch_size, pattern \in NullPatterns :
          LET source == [c \in 1..Len(buffers) |->
                            SourceRows(buffers[c].kind, c, rows, pattern)]
          IN  /\ fetched' = source
              /\ num_rows_fetched' = rows
              /\ buffers' =
                    [c \in 1..Len(buffers) |->
                        [kind |-> buffers[c].kind,
                         values |->
                            [r \in 1..batch_size |->
                                IF r <= rows /\ IsSome(source[c][r])
                                THEN Stored(buffers[c].kind, Unwrap(source[c][r]))
                                ELSE buffers[c].values[r]],
                         indicators |->
                            [r \in 1..batch_size |->
                                IF r > rows THEN buffers[c].indicators[r]
                                ELSE IF IsSome(source[c][r])
                                THEN Indicator(buffers[c].kind, Unwrap(source[c][r]))
                                ELSE NULL_DATA]]]
    /\ pc' = "fetched"
    /\ yielded' = NoYield
    /\ UNCHANGED <<batch_size, calls, bind_result>>
    /\ UNCHANGED strategyVars

(* The typed accessors.  Each yields an iterator over the rows              *)
(* 0..num_rows_fetched of the column, or panics.                             *)
PanicYield == [outcome |-> "panic", items |-> <<>>]

\* TextColumn::value_at
text_value_at(buffer, row_index) ==
    IF buffer.indicators[row_index + 1] = NULL_DATA THEN None
    ELSE Some(SubSeq(buffer.values[row_index + 1], 1, buffer.indicators[row_index + 1]))

\* OptColumn::value_at
value_at(buffer, row_index) ==
    IF buffer.indicators[row_index + 1] = NULL_DATA THEN None
    ELSE Some(buffer.values[row_index + 1])

\* Bit::as_bool under Option::map
as_bool(o) == IF IsSome(o) THEN Some(Unwrap(o) # 0) ELSE None

\* an iterator handed back to the caller, as the items it yields
Yield(items) == [outcome |-> "ok", items |-> items]

text_column_it(col_index) ==
    IF buffers[col_index + 1].kind = "Text"
    THEN Yield([row \in 1..num_rows_fetched |->
                   text_value_at(buffers[col_index + 1], row - 1)])
    ELSE PanicYield

f64_it(col_index) ==
    IF buffers[col_index + 1].kind = "F64"
    THEN Yield([row \in 1..num_rows_fetched |->
                   value_at(buffers[col_index + 1], row - 1)])
    ELSE PanicYield

f32_it(col_index) ==
    IF buffers[col_index + 1].kind = "F32"
    THEN Yield([row \in 1..num_rows_fetched |->
                   value_at(buffers[col_index + 1], row - 1)])
    ELSE PanicYield

\* mutant of i32_it: every row of the buffer is yielded
i32_it_whole_batch(col_index) ==
    IF buffers[col_index + 1].kind = "I32"
    THEN Yield([row \in 1..batch_size |-> value_at(buffers[col_index + 1], row - 1)])
    ELSE PanicYield

i32_it(col_index) ==
    IF buffers[col_index + 1].kind = "I32"
    THEN Yield([row \in 1..num_rows_fetched |->
                   value_at(buffers[col_index + 1], row - 1)])
    ELSE PanicYield

\* mutant of i64_it: a buffer of another kind is read all the same
i64_it_any_kind(col_index) ==
    Yield([row \in 1..num_rows_fetched |-> value_at(buffers[col_index + 1], row - 1)])

i64_it(col_index) ==
    IF buffers[col_index + 1].kind = "I64"
    THEN Yield([row \in 1..num_rows_fetched |->
                   value_at(buffers[col_index + 1], row - 1)])
    ELSE PanicYield

date_it(col_index) ==
    IF buffers[col_index + 1].kind = "Date"
    THEN Yield([row \in 1..num_rows_fetched |->
                   value_at(buffers[col_index + 1], row - 1)])
    ELSE PanicYield

bool_it(col_index) ==
    IF buffers[col_index + 1].kind = "Bit"
    THEN Yield([row \in 1..num_rows_fetched |->
                   as_bool(value_at(buffers[col_index + 1], row - 1))])
    ELSE PanicYield

timestamp_it(col_index) ==
    IF buffers[col_index + 1].kind = "Timestamp"
    THEN Yield([row \in 1..num_rows_fetched |->
                   value_at(buffers[col_index + 1], row - 1)])
    ELSE PanicYield

Accessors ==
    {"text_column_it", "f64_it", "f32_it", "i32_it", "i64_it", "date_it", "bool_it",
     "timestamp_it"}

\* the kind of buffer an accessor reads
AccessorKind(accessor) ==
    CASE accessor = "text_column_it" -> "Text"
      [] accessor = "f64_it" -> "F64"
      [] accessor = "f32_it" -> "F32"
      [] accessor = "i32_it" -> "I32"
      [] accessor = "i64_it" -> "I64"
      [] accessor = "date_it" -> "Date"
      [] accessor = "bool_it" -> "Bit"
      [] accessor = "timestamp_it" -> "Timestamp"

CallAccessor(accessor, col_index) ==
    CASE accessor = "text_column_it" -> text_column_it(col_index)
      [] accessor = "f64_it" -> f64_it(col_index)
      [] accessor = "f32_it" -> f32_it(col_index)
      [] accessor = "i32_it" -> i32_it(col_index)
      [] accessor = "i64_it" -> i64_it(col_index)
      [] accessor = "date_it" -> date_it(col_index)
      [] accessor = "bool_it" -> bool_it(col_index)
      [] accessor = "timestamp_it" -> timestamp_it(col_index)

\* a caller reads a column through one of the accessors
Access ==
    /\ pc \in {"constructed", "bound", "fetched"}
    /\ \E accessor \in Accessors, col_index \in 0..(Len(buffers) - 1) :
          LET got == CallAccessor(accessor, col_index)
          IN  /\ yielded' = [accessor |-> accessor, col_index |-> col_index,
                             outcome |-> got.outcome, items |-> got.items]
              /\ pc' = IF got.outcome = "panic" THEN "panicked" ELSE pc
    /\ UNCHANGED <<batch_size, num_rows_fetched, buffers, calls, bind_result, fetched>>
    /\ UNCHANGED strategyVars

(***************************************************************************)
(* The specification.                                                      *)
(***************************************************************************)
Init == InitStrategy \/ InitBuffer

Next ==
    \/ SelectStrategy
    \/ BufferDescription
    \/ CopyOdbcToParquet
    \/ BindSetRowArraySize
    \/ BindSetNumRowsFetched
    \/ BindCol
    \/ Fetch
    \/ Access

Spec == Init /\ [][Next]_vars

(***************************************************************************)
(* Claims about the strategy component.                                    *)
(***************************************************************************)
Selected == pc \in {"selected", "described", "description_panicked", "copied"}

Copied == pc = "copied"

Rows == column_view.rows

\* C1: the selector's table.  Precision 0..9 with scale 0 gives the identical
\* strategy on INT32; precision 10..18 with scale 0 gives the identical
\* strategy on INT64 when the driver supports i64 and I64FromText (INT64)
\* when it does not; every other pair gives DecimalAsBinary on
\* FIXED_LEN_BYTE_ARRAY; is_optional has no say in the choice.
C1_SelectorTable ==
    Selected =>
        LET physical == parquet_type(strategy).physical_type
            other == decmial_fetch_strategy(~is_optional, scale, precision,
                                            driver_does_support_i64)
        IN  /\ (precision \in 0..9 /\ scale = 0) =>
                    (strategy.kind = "Identical" /\ physical = "INT32")
            /\ (precision \in 10..18 /\ scale = 0 /\ driver_does_support_i64) =>
                    (strategy.kind = "Identical" /\ physical = "INT64")
            /\ (precision \in 10..18 /\ scale = 0 /\ ~driver_does_support_i64) =>
                    (strategy.kind = "I64FromText" /\ physical = "INT64")
            /\ (scale # 0 \/ precision > 18) =>
                    (strategy.kind = "DecimalAsBinary"
                     /\ physical = "FIXED_LEN_BYTE_ARRAY")
            /\ other.kind = strategy.kind
            /\ parquet_type(other).physical_type = physical

C1_Witness ==
    /\ pc = "selected"
    /\ precision = 19 /\ scale = 0 /\ is_optional /\ driver_does_support_i64
    /\ strategy.kind = "DecimalAsBinary"

\* C3: round trip of the arbitrary precision codec.  Every non-null well
\* formed text of at most `precision` digits that DecimalAsBinary copies is
\* written as exactly length_in_bytes bytes, and reading those bytes as a
\* signed big-endian integer gives the integer the text denotes with its
\* radix point removed.
C3_RoundTrip ==
    (Copied /\ strategy.kind = "DecimalAsBinary" /\ column_view.kind = "Text"
            /\ copy_result # "panic") =>
        \A i \in 1..Len(Rows) :
            (IsSome(Rows[i]) /\ NumDigits(Unwrap(Rows[i])) <= precision) =>
                /\ Len(Unwrap(sink[i])) = strategy.length_in_bytes
                /\ DecodeBE(Unwrap(sink[i])) = Denoted(Unwrap(Rows[i]))

C3_Witness ==
    /\ Copied /\ strategy.kind = "DecimalAsBinary" /\ copy_result = "ok"
    /\ precision = 20 /\ scale = 2
    /\ Rows = <<Some(<<"1", "2", "3", "4", "5", "6", "7", "8", "9", "0",
                       "1", "2", "3", "4", "5", "6", "7", "8", ".", "9", "0">>)>>
    /\ Len(Unwrap(sink[1])) = 9
    /\ DecodeBE(Unwrap(sink[1])).digits =
           <<1, 2, 3, 4, 5, 6, 7, 8, 9, 0, 1, 2, 3, 4, 5, 6, 7, 8, 9, 0>>

\* C4: length_in_bytes is at least 1, does not decrease with the precision,
\* leaves room for the digits and a sign bit (8 * length >= p * log2(10) + 1,
\* that is 10^p <= 2^(8 * length - 1)), and is the least such byte count;
\* it is 3 for precision 5 and 9 for precision 20.
C4_LengthInBytes ==
    (Selected /\ strategy.kind = "DecimalAsBinary") =>
        LET len == strategy.length_in_bytes
        IN  /\ len >= 1
            /\ len <= length_in_bytes(precision + 1)
            /\ 8 * len * Micro >= precision * (Log2Of10Micro + 1) + Micro
            /\ LeqWord(Pow10Word(precision, I128Bytes), Pow2Word(8 * len - 1, I128Bytes))
            /\ len = 1 \/ ~LeqWord(Pow10Word(precision, I128Bytes),
                                   Pow2Word(8 * (len - 1) - 1, I128Bytes))
            /\ precision = 5 => len = 3
            /\ precision = 20 => len = 9

C4_Witness ==
    /\ pc = "selected" /\ strategy.kind = "DecimalAsBinary"
    /\ precision = 12 /\ strategy.length_in_bytes = 6

\* C5: null propagation.  A copy that does not panic hands the writer one
\* optional entry per row of the view, in row order, and entry i is absent
\* exactly when row i is null.
C5_NullPropagation ==
    (Copied /\ copy_result # "panic") =>
        /\ Len(sink) = Len(Rows)
        /\ \A i \in 1..Len(Rows) : IsSome(sink[i]) <=> IsSome(Rows[i])

C5_Witness ==
    /\ Copied /\ strategy.kind = "I64FromText" /\ copy_result = "ok"
    /\ Len(Rows) = 2 /\ Rows[1] = None /\ IsSome(Rows[2])
    /\ sink[1] = None /\ IsSome(sink[2])

\* C6: a text staged copy that meets a non-null cell which is not a well
\* formed number fails and hands nothing to the writer.
C6_MalformedTextFails ==
    (Copied /\ strategy.kind \in {"I64FromText", "DecimalAsBinary"}
            /\ column_view.kind = "Text"
            /\ \E i \in 1..Len(Rows) :
                  /\ IsSome(Rows[i])
                  /\ IF strategy.kind = "I64FromText"
                     THEN ~WellFormedInteger(Unwrap(Rows[i]))
                     ELSE ~WellFormedDecimal(Unwrap(Rows[i]))) =>
        (copy_result = "panic" /\ sink = <<>>)

\* C8: staging width.  For every strategy staged as text, buffer_description
\* returns a Text description whose max_str_len is at least precision + 2 and
\* at least the length of every rendering of a decimal of that precision and
\* scale.
C8_StagingWidth ==
    (pc \in {"described", "description_panicked", "copied"}
        /\ strategy.kind \in {"I64FromText", "DecimalAsBinary"}) =>
        /\ buffer_desc.kind = "Text"
        /\ buffer_desc.max_str_len >= precision + 2
        /\ \A t \in Renderings(precision, scale) : Len(t) <= buffer_desc.max_str_len

\* 10^9 - 1 <= 2^31 - 1 and 10^18 - 1 <= 2^63 - 1, while 10^19 - 1 > 2^63 - 1
\* and parsing nineteen nines as i64 overflows
IntegerBoundaries ==
    /\ LeqWord(Pow10Word(9, I128Bytes), Pow2Word(31, I128Bytes))
    /\ LeqWord(Pow10Word(18, I128Bytes), Pow2Word(63, I128Bytes))
    /\ ~LeqWord(Pow10Word(19, I128Bytes), Pow2Word(63, I128Bytes))
    /\ from_radix_10_signed(Nines(19), I64Bytes).overflow
    /\ ~from_radix_10_signed(Nines(18), I64Bytes).overflow

\* C10: the integer paths are lossless at the selector's boundaries.  Nine
\* digits fit an i32 and eighteen an i64, nineteen do not; and whenever
\* I64FromText copies a well formed text of at most `precision` digits, no
\* step of the parse overflows and the i64 written is the integer the text
\* denotes.
C10_I64Lossless ==
    /\ IntegerBoundaries
    /\ (Copied /\ strategy.kind = "I64FromText" /\ column_view.kind = "Text") =>
          /\ precision \in 10..18
          /\ \A i \in 1..Len(Rows) :
                (/\ IsSome(Rows[i])
                 /\ WellFormedInteger(Unwrap(Rows[i]))
                 /\ Len(SelectDigits(Unwrap(Rows[i]))) <= precision) =>
                    /\ ~from_radix_10_signed(Unwrap(Rows[i]), I64Bytes).overflow
                    /\ WordValue(Unwrap(sink[i])) = Denoted(Unwrap(Rows[i]))

C10_Witness ==
    /\ Copied /\ strategy.kind = "I64FromText" /\ copy_result = "ok"
    /\ precision = 18
    /\ Rows = <<Some(<<"-">> \o Nines(18))>>
    /\ WordValue(Unwrap(sink[1])) = [neg |-> TRUE, digits |-> [i \in 1..18 |-> 9]]

(***************************************************************************)
(* Claims about the buffer component.                                      *)
(***************************************************************************)
\* C2: num_rows_fetched stays within 0..batch_size, and a typed accessor on a
\* column of its kind yields exactly num_rows_fetched entries: the rows of
\* the latest fetch in row order, None exactly at the null rows; rows after
\* them are not yielded, and before the first fetch nothing is yielded.
C2_RowsVisible ==
    /\ num_rows_fetched \in 0..batch_size
    /\ yielded.outcome = "ok" =>
          /\ Len(yielded.items) = num_rows_fetched
          /\ yielded.items = fetched[yielded.col_index + 1]
          /\ pc # "fetched" => yielded.items = <<>>

C2_Witness ==
    /\ pc = "fetched" /\ batch_size = 3 /\ num_rows_fetched = 2
    /\ yielded.accessor = "i32_it" /\ yielded.outcome = "ok"
    /\ yielded.items = <<Some(42), None>>
    /\ buffers[yielded.col_index + 1].indicators[3] # NULL_DATA

\* C7: a variant mismatch faults and coerces nothing.  A typed accessor
\* called on a column buffer of another kind panics without yielding a
\* value, and a copy of DecimalAsBinary or I64FromText given a view that is
\* not Text panics without handing a value to the writer.
C7_MismatchFaults ==
    /\ yielded.accessor # "None" =>
          (AccessorKind(yielded.accessor) # buffers[yielded.col_index + 1].kind =>
              (yielded.outcome = "panic" /\ yielded.items = <<>> /\ pc = "panicked"))
    /\ (Copied /\ strategy.kind \in {"DecimalAsBinary", "I64FromText"}
               /\ column_view.kind # "Text") =>
          (copy_result = "panic" /\ sink = <<>>)

C7_Witness ==
    /\ pc = "panicked" /\ num_rows_fetched = 2
    /\ yielded.accessor = "i64_it" /\ yielded.outcome = "panic"
    /\ buffers[yielded.col_index + 1].kind = "I32"

\* C9: bind_to_cursor calls set_row_array_size(batch_size), then
\* set_num_rows_fetched, then bind_col at the ordinals 1, 2, ..., n with the
\* buffer at 0-based position i bound at ordinal i + 1, each once; the first
\* call that fails is the last call made and its error is what
\* bind_to_cursor returns.
C9_BindOrder ==
    LET n == Len(buffers)
        Expected(k) ==
            IF k = 1 THEN <<"set_row_array_size", batch_size, 0>>
            ELSE IF k = 2 THEN <<"set_num_rows_fetched", 0, 0>>
            ELSE <<"bind_col", k - 2, k - 2>>
    IN  /\ Len(calls) <= n + 2
        /\ \A k \in 1..Len(calls) :
              <<calls[k].call, calls[k].arg, calls[k].buffer>> = Expected(k)
        /\ \A k \in 1..(Len(calls) - 1) : calls[k].result = "ok"
        /\ bind_result = "ok" =>
              (Len(calls) = n + 2 /\ calls[Len(calls)].result = "ok")
        /\ bind_result \in Errors =>
              (calls # <<>> /\ calls[Len(calls)].result = bind_result
                            /\ pc \in {"bind_failed", "panicked"})
        /\ bind_result = "none" =>
              (\A k \in 1..Len(calls) : calls[k].result = "ok")
        /\ pc \in {"bound", "fetched"} => bind_result = "ok"

C9_Witness ==
    /\ pc = "bind_failed" /\ bind_result = "E2"
    /\ Len(buffers) = 2 /\ Len(calls) = 3
    /\ calls[3] = CursorCall("bind_col", 1, 1, "E2")

====
